---- MODULE Spec2Model ----
(***************************************************************************)
(* Model of chemical/molecule.py: the Molecule class (a str subclass) with *)
(* its tokenizer, validator, tree builder, mass / atom-count evaluators,   *)
(* sanitizer and element iterator.                                         *)
(*                                                                         *)
(* A Python string is a sequence of one-character strings; a token is such *)
(* a sequence too.  Atomic masses are the table's values times 10000, so   *)
(* that all arithmetic is exact integer arithmetic.  Formulas are ASCII    *)
(* strings: letters, digits and whitespace are the ASCII ones, and         *)
(* formulas with characters beyond U+007F are outside the model.           *)
(***************************************************************************)
EXTENDS Integers, Sequences, FiniteSets, TLC

VARIABLES formula, result, stack, ret, iters

vars == <<formula, result, stack, ret, iters>>

(***************************************************************************)
(* Bounds of the model.                                                    *)
(***************************************************************************)
\* longest formula over the full alphabet
MaxLen == 4
\* longest formula over the group alphabet (nested parenthesised groups)
MaxNestLen == 6
\* longest digit run of a formula (keeps every product within the integers
\* of the model checker)
MaxDigits == 4
\* call depth at which the interpreter gives up with RecursionError; every
\* terminating parse of a formula of the model is far shallower
RecursionLimit == 5

(***************************************************************************)
(* Characters.                                                             *)
(***************************************************************************)
UpperCase == {"A","B","C","D","E","F","G","H","I","J","K","L","M",
              "N","O","P","Q","R","S","T","U","V","W","X","Y","Z"}

LowerCase == {"a","b","c","d","e","f","g","h","i","j","k","l","m",
              "n","o","p","q","r","s","t","u","v","w","x","y","z"}

Digits == {"0","1","2","3","4","5","6","7","8","9"}

\* the ASCII characters the pattern class for whitespace matches (those
\* str.isspace holds of): tab, newline, vertical tab, form feed, carriage
\* return, U+001C to U+001F and space.  Strings are ASCII here: a character
\* beyond U+007F has no faithful value in a string of this module, so the
\* whitespace beyond ASCII (U+0085, U+00A0, U+1680, U+2000 to U+200A,
\* U+2028, U+2029, U+202F, U+205F, U+3000) is not modelled.
WhiteSpace == {" ", "\t", "\n", "\r", "\f",
               "", "", "", "", ""}

\* code points of the characters the formulas of the model are made of
Ord == "H" :> 72 @@ "O" :> 79 @@ "e" :> 101 @@ "0" :> 48 @@ "2" :> 50 @@
       "(" :> 40 @@ ")" :> 41 @@ "$" :> 36 @@ " " :> 32

DigitVal == "0" :> 0 @@ "1" :> 1 @@ "2" :> 2 @@ "3" :> 3 @@ "4" :> 4 @@
            "5" :> 5 @@ "6" :> 6 @@ "7" :> 7 @@ "8" :> 8 @@ "9" :> 9

\* last index of the maximal run of characters of cls that starts at i
\* (i - 1 when the run is empty)
RunEnd(s, i, cls) ==
    LET stops == {k \in i..Len(s) : s[k] \notin cls}
    IN IF stops = {} THEN Len(s)
       ELSE (CHOOSE k \in stops : \A m \in stops : k <= m) - 1

\* int(s) for a non-empty run of decimal digits
RECURSIVE int(_)
int(s) == IF s = <<>> THEN 0
          ELSE 10 * int(SubSeq(s, 1, Len(s) - 1)) + DigitVal[s[Len(s)]]

isdigit(s) == s # <<>> /\ \A k \in 1..Len(s) : s[k] \in Digits

isalpha(s) == s # <<>> /\ \A k \in 1..Len(s) : s[k] \in UpperCase \cup LowerCase

\* sym in "()" : substring test against the two-character string
in_parens(s) == s \in {<<>>, <<"(">>, <<")">>, <<"(", ")">>}

(***************************************************************************)
(* The atomic mass table, keyed by symbol, masses times 10000.             *)
(***************************************************************************)
atomic_mass ==
    <<"H">> :> 10079 @@ <<"H","e">> :> 40026 @@ <<"L","i">> :> 69410 @@ <<"B","e">> :> 90122 @@
    <<"B">> :> 108110 @@ <<"C">> :> 120110 @@ <<"N">> :> 140070 @@ <<"O">> :> 159990 @@
    <<"F">> :> 189980 @@ <<"N","e">> :> 201800 @@ <<"N","a">> :> 229900 @@ <<"M","g">> :> 243050 @@
    <<"A","l">> :> 269820 @@ <<"S","i">> :> 280860 @@ <<"P">> :> 309740 @@ <<"S">> :> 320650 @@
    <<"C","l">> :> 354530 @@ <<"A","r">> :> 399480 @@ <<"K">> :> 390980 @@ <<"C","a">> :> 400780 @@
    <<"S","c">> :> 449560 @@ <<"T","i">> :> 478670 @@ <<"V">> :> 509420 @@ <<"C","r">> :> 519960 @@
    <<"M","n">> :> 549380 @@ <<"F","e">> :> 558450 @@ <<"C","o">> :> 589330 @@ <<"N","i">> :> 586930 @@
    <<"C","u">> :> 635460 @@ <<"Z","n">> :> 653900 @@ <<"G","a">> :> 697230 @@ <<"G","e">> :> 726100 @@
    <<"A","s">> :> 749220 @@ <<"S","e">> :> 789600 @@ <<"B","r">> :> 799040 @@ <<"K","r">> :> 838000 @@
    <<"R","b">> :> 854680 @@ <<"S","r">> :> 876200 @@ <<"Y">> :> 889060 @@ <<"Z","r">> :> 912240 @@
    <<"N","b">> :> 929060 @@ <<"M","o">> :> 959400 @@ <<"T","c">> :> 976100 @@ <<"R","u">> :> 1010700 @@
    <<"R","h">> :> 1029100 @@ <<"P","d">> :> 1064200 @@ <<"A","g">> :> 1078700 @@ <<"C","d">> :> 1124100 @@
    <<"I","n">> :> 1148200 @@ <<"S","n">> :> 1187100 @@ <<"S","b">> :> 1217600 @@ <<"T","e">> :> 1276000 @@
    <<"I">> :> 1269000 @@ <<"X","e">> :> 1312900 @@ <<"C","s">> :> 1329100 @@ <<"B","a">> :> 1373300 @@
    <<"L","a">> :> 1389100 @@ <<"C","e">> :> 1401200 @@ <<"P","r">> :> 1409100 @@ <<"N","d">> :> 1442400 @@
    <<"P","m">> :> 1450000 @@ <<"S","m">> :> 1503600 @@ <<"E","u">> :> 1519600 @@ <<"G","d">> :> 1572500 @@
    <<"T","b">> :> 1589300 @@ <<"D","y">> :> 1625000 @@ <<"H","o">> :> 1649300 @@ <<"E","r">> :> 1672600 @@
    <<"T","m">> :> 1689300 @@ <<"Y","b">> :> 1730400 @@ <<"L","u">> :> 1749700 @@ <<"H","f">> :> 1784900 @@
    <<"T","a">> :> 1809500 @@ <<"W">> :> 1838400 @@ <<"R","e">> :> 1862100 @@ <<"O","s">> :> 1902300 @@
    <<"I","r">> :> 1922200 @@ <<"P","t">> :> 1960800 @@ <<"A","u">> :> 1960800 @@ <<"H","g">> :> 2005900 @@
    <<"T","l">> :> 2043800 @@ <<"P","b">> :> 2072000 @@ <<"B","i">> :> 2089800 @@ <<"P","o">> :> 2090000 @@
    <<"A","t">> :> 2100000 @@ <<"R","n">> :> 2220000 @@ <<"F","r">> :> 2230000 @@ <<"R","a">> :> 2260000 @@
    <<"A","c">> :> 2270000 @@ <<"T","h">> :> 2320400 @@ <<"P","a">> :> 2310400 @@ <<"U">> :> 2380300 @@
    <<"N","p">> :> 2370000 @@ <<"P","u">> :> 2440000 @@ <<"A","m">> :> 2430000 @@ <<"C","m">> :> 2470000 @@
    <<"B","k">> :> 2470000 @@ <<"C","f">> :> 2510000 @@ <<"E","s">> :> 2520000 @@ <<"F","m">> :> 2570000 @@
    <<"M","d">> :> 2580000 @@ <<"N","o">> :> 2590000 @@ <<"L","r">> :> 2620000 @@ <<"R","f">> :> 2610000 @@
    <<"D","b">> :> 2620000 @@ <<"S","g">> :> 2660000 @@ <<"B","h">> :> 2640000 @@ <<"H","s">> :> 2690000 @@
    <<"M","t">> :> 2680000

in_table(s) == s \in DOMAIN atomic_mass

\* ------------------------------------------------------------------------
\* Tokenizer: re.findall over the alternatives, tried in this order at each
\* position: an upper-case letter and the lower-case run after it; a digit
\* run; one parenthesis; one non-whitespace character.
\* ------------------------------------------------------------------------
RECURSIVE scantokens(_, _)
scantokens(s, i) ==
    IF i > Len(s) THEN <<>>
    ELSE IF s[i] \in UpperCase
         THEN LET e == RunEnd(s, i + 1, LowerCase)
              IN <<SubSeq(s, i, e)>> \o scantokens(s, e + 1)
    ELSE IF s[i] \in Digits
         THEN LET e == RunEnd(s, i, Digits)
              IN <<SubSeq(s, i, e)>> \o scantokens(s, e + 1)
    ELSE IF s[i] \in WhiteSpace
         THEN scantokens(s, i + 1)
    ELSE <<SubSeq(s, i, i)>> \o scantokens(s, i + 1)

gettokens(self) == scantokens(self, 1)

\* ------------------------------------------------------------------------
\* Tree builder.  re.findall gives the list of (text, digits) tuples: text
\* is either an opening parenthesis, any characters other than a closing
\* parenthesis, and a closing parenthesis (so a group runs from its opening
\* parenthesis to the FIRST closing one), or an element symbol; digits is
\* the possibly empty digit run right after it.
\* ------------------------------------------------------------------------
RECURSIVE scantuples(_, _)
scantuples(s, i) ==
    IF i > Len(s) THEN <<>>
    ELSE IF s[i] = "(" /\ \E j \in (i + 1)..Len(s) : s[j] = ")"
         THEN LET j == RunEnd(s, i + 1, {s[k] : k \in 1..Len(s)} \ {")"}) + 1
                  e == RunEnd(s, j + 1, Digits)
              IN <<<<SubSeq(s, i, j), SubSeq(s, j + 1, e)>>>>
                 \o scantuples(s, e + 1)
    ELSE IF s[i] \in UpperCase
         THEN LET j == RunEnd(s, i + 1, LowerCase)
                  e == RunEnd(s, j + 1, Digits)
              IN <<<<SubSeq(s, i, j), SubSeq(s, j + 1, e)>>>>
                 \o scantuples(s, e + 1)
    ELSE scantuples(s, i + 1)

reslist(target) == scantuples(target, 1)

numfor(s) == IF s = <<>> THEN 1 ELSE int(s)

\* if not target: target = self     (None and '' are both falsy)
NoTarget == <<>>

effective_target(self, target) == IF target = <<>> THEN self ELSE target

\* a tree node: (symbol, n) or (subtree, n)
Leaf(sym, n) == [leaf |-> TRUE, sym |-> sym, sub |-> <<>>, n |-> n]
Group(sub, n) == [leaf |-> FALSE, sym |-> <<>>, sub |-> sub, n |-> n]

Ok(v) == [err |-> "none", val |-> v]
Raise(e) == [err |-> e, val |-> <<>>]

\* _tokentree at call depth d; the result is Ok(list of nodes) or the
\* RecursionError the interpreter raises when the calls never bottom out
RECURSIVE tokentree_at(_, _, _)
tokensubtree(self, treetuple, d) ==
    IF treetuple[1][1] = "("
    THEN LET inner == SubSeq(treetuple[1], 2, Len(treetuple[1]) - 1)
             sub == tokentree_at(self, inner, d + 1)
         IN IF sub.err # "none" THEN sub
            ELSE Ok(Group(sub.val, numfor(treetuple[2])))
    ELSE Ok(Leaf(treetuple[1], numfor(treetuple[2])))

tokentree_at(self, target, d) ==
    IF d > RecursionLimit THEN Raise("RecursionError")
    ELSE LET rl == reslist(effective_target(self, target))
             nodes == [k \in 1..Len(rl) |-> tokensubtree(self, rl[k], d)]
         IN IF \E k \in 1..Len(rl) : nodes[k].err # "none"
            THEN Raise("RecursionError")
            ELSE Ok([k \in 1..Len(rl) |-> nodes[k].val])

tokentree(self) == tokentree_at(self, NoTarget, 1)

\* ------------------------------------------------------------------------
\* Validator
\* ------------------------------------------------------------------------
\* variant: an unknown alphabetic token is reported as ValueError
is_valid_uniform(sym) ==
    IF in_parens(sym) THEN Ok(TRUE)
    ELSE IF isdigit(sym) THEN Ok(TRUE)
    ELSE IF ~isalpha(sym) THEN Raise("ValueError")
    ELSE IF ~in_table(sym) THEN Raise("ValueError")
    ELSE Ok(TRUE)

\* variant: the table lookup is skipped for one-letter tokens
is_valid_single(sym) ==
    IF in_parens(sym) THEN Ok(TRUE)
    ELSE IF isdigit(sym) THEN Ok(TRUE)
    ELSE IF ~isalpha(sym) THEN Raise("ValueError")
    ELSE IF Len(sym) > 1 /\ ~in_table(sym) THEN Raise("KeyError")
    ELSE Ok(TRUE)

is_valid(sym) ==
    IF in_parens(sym) THEN Ok(TRUE)
    ELSE IF isdigit(sym) THEN Ok(TRUE)
    ELSE IF ~isalpha(sym) THEN Raise("ValueError")
    ELSE IF ~in_table(sym) THEN Raise("KeyError")
    ELSE Ok(TRUE)

\* index of the first token that stops the loop of check_symbols (0: none)
first_rejected(toks) ==
    LET bad == {k \in 1..Len(toks) :
                  is_valid(toks[k]).err # "none" \/ is_valid(toks[k]).val = FALSE}
    IN IF bad = {} THEN 0 ELSE CHOOSE k \in bad : \A m \in bad : k <= m

check_symbols(self) ==
    LET toks == gettokens(self)
        k == first_rejected(toks)
    IN IF k = 0 THEN Ok(TRUE)
       ELSE IF is_valid(toks[k]).err # "none" THEN Raise(is_valid(toks[k]).err)
       ELSE Raise("ValueError")

\* ------------------------------------------------------------------------
\* Sanitizer
\* ------------------------------------------------------------------------
RECURSIVE concat(_)
concat(toks) == IF toks = <<>> THEN <<>> ELSE Head(toks) \o concat(Tail(toks))

goodsym(s) == is_valid(s).err = "none"

clean_copy(self) == concat(SelectSeq(gettokens(self), goodsym))

\* ------------------------------------------------------------------------
\* Evaluators
\* ------------------------------------------------------------------------
RECURSIVE SumTo(_, _)
SumTo(f, n) == IF n = 0 THEN 0 ELSE SumTo(f, n - 1) + f[n]

RECURSIVE tree_mass(_)
token_mass(node) ==
    IF node.leaf
    THEN IF ~in_table(node.sym) THEN Raise("KeyError")
         ELSE Ok(atomic_mass[node.sym] * node.n)
    ELSE LET nodemass == tree_mass(node.sub)
         IN IF nodemass.err # "none" THEN nodemass
            ELSE Ok(nodemass.val * node.n)

tree_mass(tree) ==
    LET ms == [k \in 1..Len(tree) |-> token_mass(tree[k])]
    IN IF \E k \in 1..Len(tree) : ms[k].err # "none" THEN Raise("KeyError")
       ELSE Ok(SumTo([k \in 1..Len(tree) |-> ms[k].val], Len(tree)))

mass(self) ==
    LET chk == check_symbols(self)
        tree == tokentree(self)
    IN IF chk.err # "none" THEN Raise(chk.err)
       ELSE IF tree.err # "none" THEN Raise(tree.err)
       ELSE tree_mass(tree.val)

RECURSIVE tree_count(_, _)
\* variant: a group's multiplier is not applied to the count of its subtree
token_count_flat(node, symbol) ==
    IF node.leaf
    THEN IF ~in_table(node.sym) THEN Raise("KeyError")
         ELSE IF node.sym # symbol THEN Ok(0)
         ELSE Ok(node.n)
    ELSE tree_count(symbol, node.sub)

token_count(node, symbol) ==
    IF node.leaf
    THEN IF ~in_table(node.sym) THEN Raise("KeyError")
         ELSE IF node.sym # symbol THEN Ok(0)
         ELSE Ok(node.n)
    ELSE LET c == tree_count(symbol, node.sub)
         IN IF c.err # "none" THEN c ELSE Ok(c.val * node.n)

tree_count(symbol, tree) ==
    LET cs == [k \in 1..Len(tree) |-> token_count(tree[k], symbol)]
    IN IF \E k \in 1..Len(tree) : cs[k].err # "none" THEN Raise("KeyError")
       ELSE Ok(SumTo([k \in 1..Len(tree) |-> cs[k].val], Len(tree)))

\* variant: the queried symbol is not looked up in the table
atoms_unchecked(self, symbol) ==
    LET tree == tokentree(self)
    IN IF tree.err # "none" THEN Raise(tree.err)
       ELSE tree_count(symbol, tree.val)

atoms(self, symbol) ==
    LET tree == tokentree(self)
    IN IF ~in_table(symbol) THEN Raise("KeyError")
       ELSE IF tree.err # "none" THEN Raise(tree.err)
       ELSE tree_count(symbol, tree.val)

\* ------------------------------------------------------------------------
\* Element iteration: the set of table symbols among the tokens, sorted
\* ------------------------------------------------------------------------
\* str.__lt__ : lexicographic order by code point
StrLess(a, b) ==
    LET n == IF Len(a) < Len(b) THEN Len(a) ELSE Len(b)
        diff == {k \in 1..n : a[k] # b[k]}
    IN IF diff = {} THEN Len(a) < Len(b)
       ELSE LET k == CHOOSE d \in diff : \A m \in diff : d <= m
            IN Ord[a[k]] < Ord[b[k]]

RECURSIVE sorted(_)
sorted(S) ==
    IF S = {} THEN <<>>
    ELSE LET m == CHOOSE x \in S : \A y \in S \ {x} : StrLess(x, y)
         IN <<m>> \o sorted(S \ {m})

atomset(self) ==
    LET toks == gettokens(self)
    IN {toks[k] : k \in {i \in 1..Len(toks) : in_table(toks[i])}}

\* the pairs one iterator yields when it runs alone: one (atom, atoms(atom))
\* per element of the sorted atom set, atoms(atom) being a count or an error
solo_run(self) ==
    LET as == sorted(atomset(self))
    IN [i \in 1..Len(as) |-> [atom |-> as[i], res |-> atoms(self, as[i])]]

\* ------------------------------------------------------------------------
\* State
\*   formula  the Molecule (a str)
\*   result   the last call of a public method and what it returned / raised
\*   stack    the frames of the running _tokentree call, outermost first
\*   ret      what the running _tokentree call has come to
\*   iters    the atomiter objects obtained from __iter__
\* ------------------------------------------------------------------------
Alphabet == {"H", "O", "e", "0", "2", "(", ")", "$", " "}

GroupAlphabet == {"H", "(", ")", "2"}

Strings(A, n) == UNION {[1..m -> A] : m \in 0..n}

ShortDigitRuns(f) ==
    \A i \in 1..(Len(f) - MaxDigits) :
        \E k \in i..(i + MaxDigits) : f[k] \notin Digits

Formulas ==
    {f \in Strings(Alphabet, MaxLen) \cup Strings(GroupAlphabet, MaxNestLen) :
       ShortDigitRuns(f)}

\* the symbols atoms() is queried with
QuerySymbols == {<<"H">>, <<"H","e">>, <<"O">>, <<"O","e">>, <<"e">>, <<>>}

IterIds == {1, 2}

NoIter == [state |-> "none", atomset |-> <<>>, pos |-> 0, out |-> <<>>,
           stopped |-> FALSE]

Init ==
    /\ formula \in Formulas
    /\ result = [op |-> "none", arg |-> <<>>, res |-> Ok(<<>>)]
    /\ stack = <<>>
    /\ ret = [state |-> "idle", res |-> Ok(<<>>)]
    /\ iters = [k \in IterIds |-> NoIter]

\* ------------------------------------------------------------------------
\* Calls of the public methods
\* ------------------------------------------------------------------------
CallCheckSymbols ==
    /\ result' = [op |-> "check_symbols", arg |-> <<>>, res |-> check_symbols(formula)]
    /\ UNCHANGED <<formula, stack, ret, iters>>

CallCleanCopy ==
    /\ result' = [op |-> "clean_copy", arg |-> <<>>, res |-> Ok(clean_copy(formula))]
    /\ UNCHANGED <<formula, stack, ret, iters>>

CallMass ==
    /\ result' = [op |-> "mass", arg |-> <<>>, res |-> mass(formula)]
    /\ UNCHANGED <<formula, stack, ret, iters>>

CallAtoms ==
    \E symbol \in QuerySymbols :
        /\ result' = [op |-> "atoms", arg |-> symbol, res |-> atoms(formula, symbol)]
        /\ UNCHANGED <<formula, stack, ret, iters>>

Next == CallCheckSymbols \/ CallCleanCopy \/ CallMass \/ CallAtoms

Spec == Init /\ [][Next]_vars

\* ------------------------------------------------------------------------
\* _tokentree, one step at a time.  A frame is one activation: its target,
\* the list re.findall gave, the index of the tuple map() is at, and the
\* nodes built so far.
\* ------------------------------------------------------------------------
Frame(target) ==
    [target |-> effective_target(formula, target),
     rl |-> reslist(effective_target(formula, target)),
     idx |-> 1, acc |-> <<>>]

Top == stack[Len(stack)]

SetTop(f) == [stack EXCEPT ![Len(stack)] = f]

IsGroupTuple(treetuple) == treetuple[1][1] = "("

\* self._tokentree() is called
TreeCall ==
    /\ ret.state = "idle"
    /\ stack' = <<Frame(NoTarget)>>
    /\ ret' = [state |-> "running", res |-> Ok(<<>>)]
    /\ UNCHANGED <<formula, result, iters>>

\* _tokensubtree on a symbol tuple
TreeLeaf ==
    /\ ret.state = "running"
    /\ Top.idx <= Len(Top.rl)
    /\ ~IsGroupTuple(Top.rl[Top.idx])
    /\ stack' = SetTop([Top EXCEPT
                          !.acc = Append(@, Leaf(Top.rl[Top.idx][1],
                                                 numfor(Top.rl[Top.idx][2]))),
                          !.idx = @ + 1])
    /\ UNCHANGED <<formula, result, ret, iters>>

\* _tokensubtree on a group tuple: the recursive call on the text between
\* the parentheses
TreeDescend ==
    /\ ret.state = "running"
    /\ Top.idx <= Len(Top.rl)
    /\ IsGroupTuple(Top.rl[Top.idx])
    /\ Len(stack) < RecursionLimit
    /\ stack' = Append(stack, Frame(SubSeq(Top.rl[Top.idx][1], 2,
                                           Len(Top.rl[Top.idx][1]) - 1)))
    /\ UNCHANGED <<formula, result, ret, iters>>

\* the recursive call that exceeds the interpreter's recursion limit
TreeOverflow ==
    /\ ret.state = "running"
    /\ Top.idx <= Len(Top.rl)
    /\ IsGroupTuple(Top.rl[Top.idx])
    /\ Len(stack) >= RecursionLimit
    /\ stack' = <<>>
    /\ ret' = [state |-> "raised", res |-> Raise("RecursionError")]
    /\ UNCHANGED <<formula, result, iters>>

\* list(map(...)) is complete: return to the caller
TreeReturn ==
    /\ ret.state = "running"
    /\ Top.idx > Len(Top.rl)
    /\ IF Len(stack) = 1
       THEN /\ stack' = <<>>
            /\ ret' = [state |-> "returned", res |-> Ok(Top.acc)]
       ELSE LET caller == stack[Len(stack) - 1]
                node == Group(Top.acc, numfor(caller.rl[caller.idx][2]))
            IN /\ stack' = [SubSeq(stack, 1, Len(stack) - 1)
                              EXCEPT ![Len(stack) - 1] =
                                 [caller EXCEPT !.acc = Append(@, node),
                                                !.idx = @ + 1]]
               /\ UNCHANGED ret
    /\ UNCHANGED <<formula, result, iters>>

NextTree == TreeCall \/ TreeLeaf \/ TreeDescend \/ TreeOverflow \/ TreeReturn

SpecTree == Init /\ [][NextTree]_vars

\* ------------------------------------------------------------------------
\* Iteration.  __iter__ scans the tokens, builds the tree and returns a new
\* atomiter; __next__ advances that atomiter's own tmpiter and counts the
\* atom it gives with self.atoms.
\* ------------------------------------------------------------------------
IterNew(k) ==
    /\ iters[k].state = "none"
    /\ iters' = [iters EXCEPT ![k] =
                   IF tokentree(formula).err # "none"
                   THEN [NoIter EXCEPT !.state = tokentree(formula).err]
                   ELSE [NoIter EXCEPT !.state = "live",
                                       !.atomset = sorted(atomset(formula))]]
    /\ UNCHANGED <<formula, result, stack, ret>>

\* variant: one cursor shared by all the iterators
iter_next_shared(its, k) ==
    IF its[k].pos >= Len(its[k].atomset)
    THEN [its EXCEPT ![k].stopped = TRUE]
    ELSE [j \in DOMAIN its |->
            IF j = k
            THEN [its[k] EXCEPT
                    !.pos = @ + 1,
                    !.out = Append(@, [atom |-> its[k].atomset[its[k].pos + 1],
                                       res |-> atoms(formula,
                                                 its[k].atomset[its[k].pos + 1])])]
            ELSE [its[j] EXCEPT !.pos = its[k].pos + 1]]

\* the iterators after __next__ of iterator k
iter_next(its, k) ==
    IF its[k].pos >= Len(its[k].atomset)
    THEN [its EXCEPT ![k].stopped = TRUE]
    ELSE [its EXCEPT
            ![k].pos = @ + 1,
            ![k].out = Append(@, [atom |-> its[k].atomset[its[k].pos + 1],
                                  res |-> atoms(formula,
                                            its[k].atomset[its[k].pos + 1])])]

IterNext(k) ==
    /\ iters[k].state = "live"
    /\ ~iters[k].stopped
    /\ iters' = iter_next(iters, k)
    /\ UNCHANGED <<formula, result, stack, ret>>

NextIter == \E k \in IterIds : IterNew(k) \/ IterNext(k)

SpecIter == Init /\ [][NextIter]_vars

\* ------------------------------------------------------------------------
\* Reading a formula as the claims do: tokens, nesting depth, the closing
\* parenthesis that matches an opening one, the multiplier after a token
\* ------------------------------------------------------------------------
RECURSIVE SumOver(_, _)
SumOver(S, f) ==
    IF S = {} THEN 0
    ELSE LET x == CHOOSE y \in S : TRUE IN f[x] + SumOver(S \ {x}, f)

RECURSIVE ProdOver(_, _)
ProdOver(S, f) ==
    IF S = {} THEN 1
    ELSE LET x == CHOOSE y \in S : TRUE IN f[x] * ProdOver(S \ {x}, f)

Depth(toks, k) ==
    Cardinality({i \in 1..k : toks[i] = <<"(">>})
    - Cardinality({i \in 1..k : toks[i] = <<")">>})

Match(toks, j) ==
    CHOOSE m \in (j + 1)..Len(toks) :
        /\ Depth(toks, m) = Depth(toks, j) - 1
        /\ \A q \in (j + 1)..(m - 1) : Depth(toks, q) >= Depth(toks, j)

Mult(toks, i) ==
    IF i < Len(toks) /\ isdigit(toks[i + 1]) THEN int(toks[i + 1]) ELSE 1

Enclosing(toks, i) ==
    {j \in 1..(i - 1) : toks[j] = <<"(">> /\ Match(toks, j) > i}

\* only table symbols, multipliers and balanced non-empty groups
WellFormed(f) ==
    LET toks == gettokens(f)
    IN /\ \A c \in 1..Len(f) : f[c] \notin WhiteSpace
       /\ \A k \in 1..Len(toks) :
            \/ toks[k] \in {<<"(">>, <<")">>}
            \/ in_table(toks[k])
            \/ /\ isdigit(toks[k])
               /\ k > 1
               /\ (in_table(toks[k - 1]) \/ toks[k - 1] = <<")">>)
       /\ \A k \in 1..Len(toks) : Depth(toks, k) >= 0
       /\ Depth(toks, Len(toks)) = 0
       /\ \A k \in 1..(Len(toks) - 1) :
            ~(toks[k] = <<"(">> /\ toks[k + 1] = <<")">>)

MaxDepth(f) ==
    LET toks == gettokens(f)
    IN IF toks = <<>> THEN 0
       ELSE CHOOSE d \in 0..Len(toks) :
              /\ \E k \in 1..Len(toks) : Depth(toks, k) = d
              /\ \A k \in 1..Len(toks) : Depth(toks, k) <= d

\* own multiplier times the multipliers of the enclosing groups, summed over
\* the occurrences of symbol
ExpectedCount(f, symbol) ==
    LET toks == gettokens(f)
        occ == {i \in 1..Len(toks) : toks[i] = symbol}
        contrib == [i \in occ |->
                      Mult(toks, i)
                      * ProdOver(Enclosing(toks, i),
                                 [j \in Enclosing(toks, i) |->
                                    Mult(toks, Match(toks, j))])]
    IN SumOver(occ, contrib)

\* ------------------------------------------------------------------------
\* C1: on a formula of table symbols, multipliers and balanced non-empty
\* groups nested to any depth, atoms(s) for a table symbol s is the sum over
\* the occurrences of s of the occurrence's multiplier times the product of
\* the multipliers of the groups that enclose it.
\* ------------------------------------------------------------------------
C1_NestedCount ==
    (result.op = "atoms" /\ in_table(result.arg) /\ WellFormed(formula))
    => result.res = Ok(ExpectedCount(formula, result.arg))

\* ------------------------------------------------------------------------
\* C2: the outcome of check_symbols is decided by the leftmost rejected
\* token: KeyError when that token is alphabetic but not in the table,
\* ValueError when it is neither alphabetic, a digit run nor a parenthesis,
\* and True only when no token is rejected.
\* ------------------------------------------------------------------------
Rejected(t) ==
    ~(t \in {<<"(">>, <<")">>} \/ isdigit(t) \/ (isalpha(t) /\ in_table(t)))

RejectedAt(f) == {k \in 1..Len(gettokens(f)) : Rejected(gettokens(f)[k])}

Leftmost(S) == CHOOSE k \in S : \A m \in S : k <= m

C2_LeftmostRejected ==
    result.op = "check_symbols" =>
        LET toks == gettokens(formula)
            rej == RejectedAt(formula)
        IN IF rej = {} THEN result.res = Ok(TRUE)
           ELSE IF isalpha(toks[Leftmost(rej)])
                THEN result.res = Raise("KeyError")
                ELSE result.res = Raise("ValueError")

\* an unknown symbol was reported although a malformed token follows it
C2_Witness ==
    /\ result.op = "check_symbols"
    /\ result.res = Raise("KeyError")
    /\ \E k \in RejectedAt(formula) : ~isalpha(gettokens(formula)[k])

\* ------------------------------------------------------------------------
\* C3: iterating a Molecule yields exactly one (symbol, count) pair for each
\* distinct element symbol among the tokens, in strictly ascending order of
\* symbol, each count being atoms(symbol), and then ends.
\* ------------------------------------------------------------------------
C3_IterationYieldsEveryElement ==
    \A k \in IterIds :
        iters[k].state # "none" =>
            /\ iters[k].state = "live"
            /\ \A i \in 1..Len(iters[k].out) :
                 /\ iters[k].out[i].res.err = "none"
                 /\ iters[k].out[i].res = atoms(formula, iters[k].out[i].atom)
            /\ \A i \in 1..(Len(iters[k].out) - 1) :
                 StrLess(iters[k].out[i].atom, iters[k].out[i + 1].atom)
            /\ iters[k].stopped =>
                 /\ {iters[k].out[i].atom : i \in 1..Len(iters[k].out)}
                      = atomset(formula)
                 /\ Len(iters[k].out) = Cardinality(atomset(formula))

\* ------------------------------------------------------------------------
\* C4: mass() and atoms(symbol) both validate first: when check_symbols
\* rejects a token of the formula, the call (atoms: for a symbol of the
\* table) fails with the validator's error and returns no number.
\* ------------------------------------------------------------------------
C4_ValidatesFirst ==
    /\ (result.op = "mass" /\ check_symbols(formula).err # "none")
         => result.res = Raise(check_symbols(formula).err)
    /\ (result.op = "atoms" /\ in_table(result.arg)
           /\ check_symbols(formula).err # "none")
         => result.res = Raise(check_symbols(formula).err)

\* ------------------------------------------------------------------------
\* C5: clean_copy is idempotent: cleaning the cleaned formula changes
\* nothing.
\* ------------------------------------------------------------------------
C5_CleanCopyIdempotent ==
    result.op = "clean_copy" => clean_copy(result.res.val) = result.res.val

\* tokens were dropped and the survivors read back as different tokens
C5_Witness ==
    /\ result.op = "clean_copy"
    /\ result.res.val # formula
    /\ gettokens(result.res.val) # SelectSeq(gettokens(formula), goodsym)

\* ------------------------------------------------------------------------
\* C6: atoms(symbol) fails with KeyError whenever symbol is not a key of
\* the table, whatever the formula is, and never returns a count then.
\* ------------------------------------------------------------------------
C6_UnknownQueryRaises ==
    (result.op = "atoms" /\ ~in_table(result.arg))
    => result.res = Raise("KeyError")

\* the unknown symbol was queried on a formula that does not contain it and
\* all of whose symbols are known
C6_Witness ==
    /\ result.op = "atoms"
    /\ ~in_table(result.arg)
    /\ result.res = Raise("KeyError")
    /\ gettokens(formula) # <<>>
    /\ \A k \in 1..Len(gettokens(formula)) :
         in_table(gettokens(formula)[k])

\* ------------------------------------------------------------------------
\* C7: two iterators obtained from the same formula do not disturb each
\* other: under every interleaving of their next-steps each has yielded a
\* prefix of what it yields alone, and all of it once it has ended.
\* ------------------------------------------------------------------------
C7_IndependentIterators ==
    \A k \in IterIds :
        iters[k].state = "live" =>
            /\ Len(iters[k].out) <= Len(solo_run(formula))
            /\ iters[k].out = SubSeq(solo_run(formula), 1, Len(iters[k].out))
            /\ iters[k].stopped => iters[k].out = solo_run(formula)

\* both iterators are under way at different positions, one has ended
C7_Witness ==
    /\ iters[1].state = "live" /\ iters[2].state = "live"
    /\ iters[1].stopped /\ Len(iters[1].out) >= 2
    /\ ~iters[2].stopped /\ Len(iters[2].out) = 1

\* ------------------------------------------------------------------------
\* C8: every recursive call of _tokentree is made on a strictly shorter
\* string than the one its caller scans.
\* ------------------------------------------------------------------------
C8_RecursionShrinks ==
    [][(Len(stack) >= 1 /\ Len(stack') = Len(stack) + 1)
         => Len(stack'[Len(stack')].target) < Len(stack[Len(stack)].target)]_vars

\* ------------------------------------------------------------------------
\* C9: every node of every tree _tokentree builds, at every level, carries
\* a multiplier that is at least 1.
\* ------------------------------------------------------------------------
RECURSIVE AllPositive(_)
AllPositive(tree) ==
    \A k \in 1..Len(tree) :
        /\ tree[k].n >= 1
        /\ tree[k].leaf \/ AllPositive(tree[k].sub)

C9_PositiveMultipliers ==
    /\ \A d \in 1..Len(stack) : AllPositive(stack[d].acc)
    /\ ret.state = "returned" => AllPositive(ret.res.val)

\* ------------------------------------------------------------------------
\* C10: whenever mass() returns a value, atoms(s) returns a count for every
\* symbol s of the table and the mass is the sum over the table of
\* atoms(s) times the mass of s (the symbols that are not among the tokens
\* count 0 and drop out of the sum).
\* ------------------------------------------------------------------------
C10_MassMatchesCounts ==
    (result.op = "mass" /\ result.res.err = "none") =>
        /\ \A s \in DOMAIN atomic_mass \ atomset(formula) :
             atoms(formula, s) = Ok(0)
        /\ \A s \in atomset(formula) : atoms(formula, s).err = "none"
        /\ result.res.val
             = SumOver(atomset(formula),
                       [s \in atomset(formula) |->
                          atoms(formula, s).val * atomic_mass[s]])

\* a mass was returned for a formula with a multiplied, non-empty group
C10_Witness ==
    /\ result.op = "mass"
    /\ result.res.err = "none"
    /\ result.res.val > 0
    /\ \E k \in 1..Len(tokentree(formula).val) :
         /\ ~tokentree(formula).val[k].leaf
         /\ tokentree(formula).val[k].n >= 2
         /\ tokentree(formula).val[k].sub # <<>>

====
